---- MODULE Spec2Model ----
(***************************************************************************)
(* FindSim: the fingerprint discovery and validation pipeline of main.py,  *)
(* with the search gateway of fofa_search.py and the similarity scorer of  *)
(* url_list_similarity.py.                                                 *)
(*                                                                         *)
(* Strings are sequences of one-character strings, so that strip, urlsplit *)
(* and basename are computed character by character.  Python floats are    *)
(* IEEE-754 doubles: a 53-bit mantissa (most significant bit first) and a  *)
(* binary exponent, with round-to-nearest-even after every operation.      *)
(***************************************************************************)
EXTENDS Integers, Sequences, FiniteSets, TLC

(***************************************************************************)
(* The state of a run of main().                                           *)
(***************************************************************************)
VARIABLES
  pc,                        \* where the run is
  config,                    \* config.json: whether it exists, and its keys
  args,                      \* the command line: no_analysis
  urls,                      \* how many URLs the run was given
  url_i,                     \* how many of them process_single_url was called for
  error,                     \* the exception that ended the run, "none" before
  features,                  \* process_single_url: features
  analysis_result,           \* process_single_url: analysis_result
  fingerprints,              \* process_single_url: fingerprints (expanded)
  i,                         \* process_single_url: the search loop's index
  final_results,             \* dict finger -> sampled target URLs
  final_results_count,       \* dict finger -> hit count
  finger_i,                  \* how many items of final_results the validation began
  target_i,                  \* how many target_urls of the current finger were tried
  sim_list,                  \* the current finger's recorded similarities
  valid_fingerprint_results, \* the valid fingerprints found so far
  results_files,             \* the sites save_results wrote a report for, which
                             \* holds valid_fingerprint_results as it then is
  queried,                   \* history: <<finger, rows returned>> per body query
  last_query,                \* history: what the last search request met
  attempted,                 \* history: the current finger's targets tried so far
  last_sample,               \* history: the sample tried last
  validated,                 \* history: the fingers whose validation ended
  jaccard_a,                 \* UrlListSimilarity.jaccard called alone: urls1
  jaccard_b,                 \* UrlListSimilarity.jaccard called alone: urls2
  similarity                 \* UrlListSimilarity.jaccard called alone: the result

(***************************************************************************)
(* Bounds of the model.                                                    *)
(***************************************************************************)
\* Small hit counts a search may return: 0..MaxHits (besides the threshold ones).
MaxHits == 1
\* Most scores the sampled sites of one candidate get recorded.
MaxRecorded == 3
\* Most sites (URLs) of one run.
MaxUrls == 1
\* Longest list UrlListSimilarity.jaccard is called alone with.
MaxLen == 2

(***************************************************************************)
(* Program constants.                                                      *)
(***************************************************************************)
REJECT_THRESHOLD == 5000
SAMPLE_SIZE == 10
MantBits == 53
NOISE_FLOOR == <<1, 10>>
VALID_THRESHOLD == <<2, 5>>

(***************************************************************************)
(* Helpers on sets and sequences.                                          *)
(***************************************************************************)
\* F(a), F(a, b): a call that, as Python does, computes its arguments first.
Call1(F(_), a) == CHOOSE r \in {F(v) : v \in {a}} : TRUE
Call2(F(_, _), a, b) == CHOOSE r \in {F(v, w) : v \in {a}, w \in {b}} : TRUE

Min(S) == CHOOSE x \in S : \A y \in S : x <= y
Max(S) == CHOOSE x \in S : \A y \in S : x >= y

\* str.find over a set of characters: the first index >= start, 0 when none.
Find(s, C, start) ==
  LET I == {ix \in start..Len(s) : s[ix] \in C}
  IN  IF I = {} THEN 0 ELSE Min(I)

\* s in the sequence l (Python's "in" on a list).
InList(s, l) == \E ix \in 1..Len(l) : l[ix] = s

(***************************************************************************)
(* Characters.                                                             *)
(***************************************************************************)
Whitespace == {" "}
Letters == {"a", "b", "c", "d", "e", "f", "g", "h", "i", "j", "k", "p", "s", "t", "x", "y"}
Digits == {"0", "1", "2", "3", "4", "5", "6", "7", "8", "9"}
SchemeChars == Letters \cup Digits \cup {"+", "-", "."}

(***************************************************************************)
(* str.strip, str.lstrip, urllib.parse.urlsplit(u).path, os.path.basename  *)
(***************************************************************************)
strip(u) ==
  LET I == {ix \in 1..Len(u) : u[ix] \notin Whitespace}
  IN  IF I = {} THEN <<>> ELSE SubSeq(u, Min(I), Max(I))

lstrip(u) ==
  LET I == {ix \in 1..Len(u) : u[ix] \notin Whitespace}
  IN  IF I = {} THEN <<>> ELSE SubSeq(u, Min(I), Len(u))

\* urlsplit(url): the scheme, when the text before the first ":" is one.
without_scheme(u) ==
  LET colon == Find(u, {":"}, 1)
      hasScheme == /\ colon > 1
                   /\ u[1] \in Letters
                   /\ \A k \in 1..(colon - 1) : u[k] \in SchemeChars
  IN  IF hasScheme THEN SubSeq(u, colon + 1, Len(u)) ELSE u

\* urlsplit(url): the netloc, "//" up to the next "/", "?" or "#".
without_netloc(u) ==
  LET hasNetloc == Len(u) >= 2 /\ u[1] = "/" /\ u[2] = "/"
      delim == Find(u, {"/", "?", "#"}, 3)
  IN  IF hasNetloc
      THEN (IF delim = 0 THEN <<>> ELSE SubSeq(u, delim, Len(u)))
      ELSE u

\* What precedes the first occurrence of the character c.
before(u, c) ==
  LET at == Find(u, {c}, 1)
  IN  IF at > 0 THEN SubSeq(u, 1, at - 1) ELSE u

without_fragment(u) == before(u, "#")
without_query(u) == before(u, "?")

\* urlsplit(url).path: the scheme, the netloc, the fragment and the query removed.
urlsplit_path(url) ==
  Call1(without_query,
    Call1(without_fragment,
      Call1(without_netloc,
        Call1(without_scheme,
          Call1(lstrip, url)))))

\* os.path.basename (posixpath): what follows the last "/".
basename(p) ==
  LET I == {ix \in 1..Len(p) : p[ix] = "/"}
  IN  IF I = {} THEN p ELSE SubSeq(p, Max(I) + 1, Len(p))

(***************************************************************************)
(* UrlListSimilarity                                                       *)
(***************************************************************************)
\* _normalize: falsy (empty) entries are skipped; every other entry is stripped
\* and its path is added to the set, also when that path is empty.
UrlListSimilarity_normalize(url_list) ==
  {urlsplit_path(Call1(strip, url_list[n])) :
     n \in {k \in 1..Len(url_list) : url_list[k] # <<>>}}

\* jaccard with the size of the first set for the size of the union.
UrlListSimilarity_jaccard_over_first(urls1, urls2) ==
  Call2(LAMBDA s1, s2 :
          IF s1 = {} /\ s2 = {} THEN <<1, 1>>
          ELSE IF s1 = {} \/ s2 = {} THEN <<0, 1>>
          ELSE <<Cardinality(s1 \cap s2), Cardinality(s1)>>,
        UrlListSimilarity_normalize(urls1), UrlListSimilarity_normalize(urls2))

\* jaccard: the float inter / union, kept as the pair <<inter, union>> it is the
\* quotient of; 1.0 is <<1, 1>> and 0.0 is <<0, 1>>.
UrlListSimilarity_jaccard(urls1, urls2) ==
  Call2(LAMBDA s1, s2 :
          IF s1 = {} /\ s2 = {} THEN <<1, 1>>
          ELSE IF s1 = {} \/ s2 = {} THEN <<0, 1>>
          ELSE <<Cardinality(s1 \cap s2), Cardinality(s1 \cup s2)>>,
        UrlListSimilarity_normalize(urls1), UrlListSimilarity_normalize(urls2))

(***************************************************************************)
(* Python floats.  A float is Zero or [e, m]: m is MantBits bits, m[1] = 1,*)
(* and the value is 0.m (binary) * 2^e.                                    *)
(***************************************************************************)
Zero == [e |-> 0, m |-> <<>>]

\* A function with domain 1..n as a tuple, and a function as a table of its
\* values: the same function, with every value computed.
Tuple(f) == f \o <<>>
Table(f) == f @@ <<>>

Zeros(n) == Tuple([ix \in 1..n |-> 0])

\* a/b > 0 scaled by a power of two into [1/2, 1): <<a', b', e>> with
\* a/b = (a'/b') * 2^e.
RECURSIVE Scale(_, _, _)
Scale(a, b, e) ==
  IF a >= b THEN Scale(a, 2 * b, e + 1)
  ELSE IF 2 * a < b THEN Scale(2 * a, b, e - 1)
  ELSE <<a, b, e>>

\* 2^i mod b, by repeated squaring.
RECURSIVE PowMod2(_, _)
PowMod2(ix, b) ==
  IF ix = 0 THEN 1 % b
  ELSE IF ix % 2 = 0
       THEN Call1(LAMBDA h : (h * h) % b, PowMod2(ix \div 2, b))
       ELSE (2 * PowMod2(ix - 1, b)) % b

\* f[lo] + ... + f[hi]
RECURSIVE SumRange(_, _, _)
SumRange(f, lo, hi) ==
  IF lo > hi THEN 0
  ELSE IF lo = hi THEN f[lo]
  ELSE LET mid == (lo + hi) \div 2
       IN  SumRange(f, lo, mid) + SumRange(f, mid + 1, hi)

\* The first n bits of the binary expansion of a/b (a < b), and the remainder:
\* the remainder after i bits is a * 2^i mod b.
DivBits(a, b, n) ==
  <<Tuple([ix \in 1..n |-> IF 2 * ((a * PowMod2(ix - 1, b)) % b) >= b THEN 1 ELSE 0]),
    (a * PowMod2(n, b)) % b>>

\* bits + 1 as a binary number; all ones carry into a longer exponent.
Increment(bits, e) ==
  LET Z == {ix \in 1..Len(bits) : bits[ix] = 0}
  IN  IF Z = {}
      THEN [e |-> e + 1, m |-> <<1>> \o Zeros(Len(bits) - 1)]
      ELSE LET z == Max(Z)
           IN  [e |-> e, m |-> SubSeq(bits, 1, z - 1) \o <<1>> \o Zeros(Len(bits) - z)]

\* Round to nearest, ties to even: cmp is the sign of (discarded part - half ulp).
RoundNearestEven(bits, e, cmp) ==
  IF cmp > 0 \/ (cmp = 0 /\ bits[Len(bits)] = 1)
  THEN Increment(bits, e)
  ELSE [e |-> e, m |-> bits]

Sign(x) == IF x > 0 THEN 1 ELSE IF x < 0 THEN -1 ELSE 0

\* int / int (true division), p >= 0 and q > 0.
FloatOfRatio(p, q) ==
  IF p = 0 THEN Zero
  ELSE Call1(LAMBDA s :
               Call1(LAMBDA d : RoundNearestEven(d[1], s[3], Sign(2 * d[2] - s[2])),
                     DivBits(s[1], s[2], MantBits)),
             Scale(p, q, 0))

\* Addition of two bit sequences of one length whose sum does not overflow it:
\* the carry into position i is generated at some j > i and propagated between.
AddBits(a, b) ==
  LET carry(ix) == \E j \in (ix + 1)..Len(a) :
                     /\ a[j] + b[j] = 2
                     /\ \A k \in (ix + 1)..(j - 1) : a[k] + b[k] = 1
  IN  Tuple([ix \in 1..Len(a) |-> (a[ix] + b[ix] + (IF carry(ix) THEN 1 ELSE 0)) % 2])

\* An exact binary number 0.bits * 2^e (bits not all zero) rounded to a float.
RoundBits(bits, e) ==
  Call1(LAMBDA first :
          LET sig == SubSeq(bits, first, Len(bits))
              ex  == e - (first - 1)
          IN  IF Len(sig) <= MantBits
              THEN [e |-> ex, m |-> sig \o Zeros(MantBits - Len(sig))]
              ELSE LET tail == SubSeq(sig, MantBits + 1, Len(sig))
                       rest == {ix \in 2..Len(tail) : tail[ix] = 1}
                       cmp  == IF tail[1] = 0 THEN -1 ELSE IF rest = {} THEN 0 ELSE 1
                   IN  Call1(LAMBDA head : RoundNearestEven(head, ex, cmp),
                             SubSeq(sig, 1, MantBits)),
        Min({ix \in 1..Len(bits) : bits[ix] = 1}))

\* float + float
FloatAdd(x, y) ==
  IF x = Zero THEN y
  ELSE IF y = Zero THEN x
  ELSE LET E  == (IF x.e >= y.e THEN x.e ELSE y.e) + 1
           lx == (E - x.e) + Len(x.m)
           ly == (E - y.e) + Len(y.m)
           L  == IF lx >= ly THEN lx ELSE ly
           ax == Zeros(E - x.e) \o x.m \o Zeros(L - lx)
           ay == Zeros(E - y.e) \o y.m \o Zeros(L - ly)
       IN  Call2(RoundBits, Call2(AddBits, ax, ay), E)

\* Long division of the bit sequence m by n: <<quotient bits, remainder>>; the
\* remainder after i bits is (m[1..i] as a binary number) mod n.
LongDiv(m, n) ==
  LET rem(ix) == SumRange([j \in 1..ix |-> m[j] * PowMod2(ix - j, n)], 1, ix) % n
  IN  <<Tuple([ix \in 1..Len(m) |-> IF 2 * rem(ix - 1) + m[ix] >= n THEN 1 ELSE 0]),
        rem(Len(m))>>

\* float / int, n > 0.
FloatDivInt(x, n) ==
  IF x = Zero THEN Zero
  ELSE Call1(LAMBDA d :
               Call1(LAMBDA z :
                       Call1(LAMBDA more :
                               Call1(LAMBDA bits :
                                       RoundNearestEven(bits, x.e - z, Sign(2 * more[2] - n)),
                                     SubSeq(d[1], z + 1, Len(d[1])) \o more[1]),
                             DivBits(d[2], n, z)),
                     Min({ix \in 1..Len(d[1]) : d[1][ix] = 1}) - 1),
             LongDiv(x.m, n))

\* x < y for floats >= 0.
FloatLess(x, y) ==
  IF y = Zero THEN FALSE
  ELSE IF x = Zero THEN TRUE
  ELSE IF x.e # y.e THEN x.e < y.e
  ELSE LET D == {ix \in 1..MantBits : x.m[ix] # y.m[ix]}
       IN  D # {} /\ x.m[Min(D)] < y.m[Min(D)]

\* The floats of the quotients inter / union a similarity can be, computed once.
MaxUnion == SAMPLE_SIZE + 2
FloatTable == Table([p \in 0..MaxUnion, q \in 1..MaxUnion |-> FloatOfRatio(p, q)])
FloatOf(sim) ==
  IF sim[1] \in 0..MaxUnion /\ sim[2] \in 1..MaxUnion
  THEN FloatTable[sim[1], sim[2]]
  ELSE FloatOfRatio(sim[1], sim[2])

\* sum(sim_list): 0 + s1 + s2 + ..., left to right.
RECURSIVE FloatSum(_)
FloatSum(l) ==
  IF l = <<>> THEN Zero
  ELSE Call2(FloatAdd, FloatSum(SubSeq(l, 1, Len(l) - 1)), FloatOf(l[Len(l)]))

(***************************************************************************)
(* get_fingerprints_sum (main.py)                                          *)
(***************************************************************************)
RECURSIVE ExpandFrom(_, _, _)
ExpandFrom(fps, k, result) ==
  IF k > Len(fps) THEN result
  ELSE LET fp       == fps[k]
           filename == basename(fp)
       IN  Call1(LAMBDA r : ExpandFrom(fps, k + 1, r),
                 IF filename # <<>> /\ ~InList(filename, result) /\ fp # <<"/">> \o filename
                 THEN Append(result, filename)
                 ELSE result)

get_fingerprints_sum(fps) == ExpandFrom(fps, 1, fps)

(***************************************************************************)
(* Python dicts keep insertion order: a dict is a sequence of <<key, value>>*)
(* pairs with distinct keys.                                               *)
(***************************************************************************)
DictHas(d, k) == \E n \in 1..Len(d) : d[n][1] = k
DictGet(d, k) == d[CHOOSE n \in 1..Len(d) : d[n][1] = k][2]
\* d[k] = v: an existing key keeps its place.
DictSet(d, k, v) ==
  IF DictHas(d, k)
  THEN [n \in 1..Len(d) |-> IF d[n][1] = k THEN <<k, v>> ELSE d[n]]
  ELSE Append(d, <<k, v>>)
DictKeys(d) == [n \in 1..Len(d) |-> d[n][1]]

\* sorted(d.items(), key=lambda x: x[1]): ascending by value, stable.
SortedByValue(d) ==
  LET rank(n) == Cardinality({j \in 1..Len(d) : d[j][2] < d[n][2]})
                 + Cardinality({j \in 1..n : d[j][2] = d[n][2]})
  IN  [p \in 1..Len(d) |-> d[CHOOSE n \in 1..Len(d) : rank(n) = p]]

(***************************************************************************)
(* The outside world: the configuration file, the search API's responses,  *)
(* the pages and the classification oracle's replies.                      *)
(***************************************************************************)
ConfigKeys == {"deepseek_api_key", "fofa_api", "fofa_api_key"}
Configs ==
  {[exists |-> FALSE, keys |-> {}]}
    \cup {[exists |-> TRUE, keys |-> ConfigKeys \ K] : K \in {{}} \cup {{k} : k \in ConfigKeys}}

DigitChar == <<"0", "1", "2", "3", "4", "5", "6", "7", "8", "9">>
RECURSIVE Decimal(_)
Decimal(n) ==
  IF n < 10 THEN <<DigitChar[n + 1]>>
  ELSE Decimal(n \div 10) \o <<DigitChar[(n % 10) + 1]>>

\* The link field of row n of a search result: a host, or (every even row)
\* the placeholder address that begins with "0".
Link(n) ==
  (IF n % 2 = 0 THEN <<"0", ".">> ELSE <<"h">>) \o Decimal(n)

\* A result row: the fields ip, port, host, icp, link.
Rows(len) == [n \in 1..len |-> <<"ip", "port", "host", "icp", Link(n)>>]

HitCounts == (0..MaxHits) \cup {REJECT_THRESHOLD - 1, REJECT_THRESHOLD}

\* What httpx.get meets: a timeout, a non-2xx status, a body that is no JSON, or
\* a JSON body with its "results"; named by <<kind, number of rows>>.
Responses ==
  {<<k, 0>> : k \in {"timeout", "status", "malformed"}}
    \cup {<<"json", n>> : n \in HitCounts}
Response(name) ==
  [kind |-> name[1],
   results |-> IF name[1] = "json" THEN Rows(name[2]) ELSE <<>>]

\* JSON values of the oracle's "fingerprints": a list of strings, or null.
JList(l) == [type |-> "list", items |-> l]
JNull == [type |-> "null", items |-> <<>>]

P_ja == <<"/", "j", "/", "a">>
P_a == <<"/", "a">>
P_b == <<"/", "b">>
P_n(n) == <<"/">> \o Decimal(n)

\* Fingerprint lists the oracle answers for the site under analysis.
SiteLists ==
  << <<>>,
     <<P_ja>>,
     <<P_a, P_b, P_a>>,
     << <<>> >> >>

\* Fingerprint lists the oracle answers for a sampled hit site.
HitLists ==
  << <<>>,
     <<P_ja, P_a>>,
     <<P_ja, P_a, P_n(1), P_n(2), P_n(3)>>,
     <<P_ja, P_a, P_n(3), P_n(4), P_n(5), P_n(6), P_n(7), P_n(8), P_n(9), P_n(10)>> >>

\* The oracle's replies: an API error, a text that is no JSON, or JSON whose
\* "fingerprints" is null (n = 0) or the n-th of the lists; named by <<kind, n>>.
Replies(lists) ==
  {<<k, 0>> : k \in {"error", "text"}} \cup {<<"json", n>> : n \in 0..Len(lists)}
Reply(lists, name) ==
  [kind |-> name[1],
   fingerprints |-> IF name[1] = "json" /\ name[2] > 0 THEN JList(lists[name[2]]) ELSE JNull]

\* A site: the extractor cannot be built ("raise"), the page cannot be fetched
\* ("unreachable"), or it answers HTML.
Pages == {"raise", "unreachable", "html"}
Hashes == {<<>>, <<"-", "7">>}

(***************************************************************************)
(* FofaSearch.fofa_query (fofa_search.py): the rows returned, or the       *)
(* exception that leaves the method.                                       *)
(***************************************************************************)
FofaSearch_fofa_query(cfg, resp) ==
  IF ~({"fofa_api", "fofa_api_key"} \subseteq cfg.keys)
  THEN [raised |-> "KeyError", data |-> <<>>]
  ELSE IF resp.kind = "timeout"
  THEN [raised |-> "none", data |-> <<>>]               \* except httpx.RequestError
  ELSE IF resp.kind = "status"
  THEN [raised |-> "HTTPStatusError", data |-> <<>>]    \* raise_for_status()
  ELSE IF resp.kind = "malformed"
  THEN [raised |-> "JSONDecodeError", data |-> <<>>]    \* resp.json()
  ELSE [raised |-> "none", data |-> resp.results]

(***************************************************************************)
(* DeepSeekAnalyzer.analyze_features (deepseek_analyzer.py).  "import json"*)
(* inside the try block makes json a local name: an exception raised before*)
(* that line (the API call failing) reaches "except json.JSONDecodeError"  *)
(* with json unbound, and UnboundLocalError leaves the method.  A reply that*)
(* is no JSON is caught and becomes success = False with no fingerprints.  *)
(***************************************************************************)
DeepSeekAnalyzer_analyze_features(reply) ==
  IF reply.kind = "error"
  THEN [raised |-> "UnboundLocalError", success |-> FALSE, fingerprints |-> JList(<<>>)]
  ELSE IF reply.kind = "json"
  THEN [raised |-> "none", success |-> TRUE, fingerprints |-> reply.fingerprints]
  ELSE [raised |-> "none", success |-> FALSE, fingerprints |-> JList(<<>>)]

\* WebsiteFeatureExtractor.extract_all_features for a sampled site: a failed
\* fetch is caught in extract_resources and gives empty resources.
WebsiteFeatureExtractor_extract_all_features(url, page, hash) ==
  [url |-> url, favicon_hash |-> hash, resources |-> IF page = "html" THEN "some" ELSE "none"]

vars == <<pc, config, args, urls, url_i, error, features, analysis_result,
          fingerprints, i, final_results, final_results_count, finger_i, target_i,
          sim_list, valid_fingerprint_results, results_files, queried,
          last_query, attempted, last_sample, validated, jaccard_a, jaccard_b, similarity>>

jaccard_vars == <<jaccard_a, jaccard_b, similarity>>
run_vars == <<config, args, urls, jaccard_vars>>
site_vars == <<features, analysis_result, fingerprints, i, final_results,
               final_results_count, finger_i, target_i, sim_list,
               valid_fingerprint_results>>
history_vars == <<queried, last_query, attempted, last_sample, validated>>

NoFeatures == [url |-> 0, favicon_hash |-> <<>>, resources |-> "none"]
NoAnalysis == [success |-> FALSE, fingerprints |-> JList(<<>>)]
NoSample == [success |-> FALSE, recorded |-> FALSE]

\* The locals of process_single_url at its entry.
SiteReset ==
  /\ features' = NoFeatures
  /\ analysis_result' = NoAnalysis
  /\ fingerprints' = <<>>
  /\ i' = 0
  /\ final_results' = <<>>
  /\ final_results_count' = <<>>
  /\ finger_i' = 0
  /\ target_i' = 0
  /\ sim_list' = <<>>
  /\ valid_fingerprint_results' = <<>>
  /\ queried' = <<>>
  /\ last_query' = "none"
  /\ attempted' = <<>>
  /\ last_sample' = NoSample
  /\ validated' = <<>>

Init ==
  /\ pc = "main"
  /\ config \in Configs
  /\ args \in [no_analysis : BOOLEAN]
  /\ urls \in 1..MaxUrls
  /\ url_i = 0
  /\ error = "none"
  /\ features = NoFeatures
  /\ analysis_result = NoAnalysis
  /\ fingerprints = <<>>
  /\ i = 0
  /\ final_results = <<>>
  /\ final_results_count = <<>>
  /\ finger_i = 0
  /\ target_i = 0
  /\ sim_list = <<>>
  /\ valid_fingerprint_results = <<>>
  /\ results_files = <<>>
  /\ queried = <<>>
  /\ last_query = "none"
  /\ attempted = <<>>
  /\ last_sample = NoSample
  /\ validated = <<>>
  /\ jaccard_a = <<>>
  /\ jaccard_b = <<>>
  /\ similarity = <<1, 1>>

\* An exception (or sys.exit) that nothing catches ends the run.
Fatal(exc) == pc' = "fatal" /\ error' = exc

(***************************************************************************)
(* main, lines 184-190: load_config and the analyzer.                      *)
(***************************************************************************)
load_config ==
  /\ pc = "main"
  /\ IF ~config.exists
     THEN Fatal("SystemExit")
     ELSE IF ~args.no_analysis /\ "deepseek_api_key" \notin config.keys
     THEN Fatal("KeyError")
     ELSE pc' = "for_url" /\ error' = error
  /\ UNCHANGED <<run_vars, url_i, site_vars, results_files, history_vars>>

(***************************************************************************)
(* main, lines 193-194: for url in urls: process_single_url(...)           *)
(***************************************************************************)
next_url ==
  /\ pc = "for_url"
  /\ IF url_i < urls
     THEN /\ url_i' = url_i + 1
          /\ pc' = "extract"
          /\ SiteReset
     ELSE /\ pc' = "exit"
          /\ UNCHANGED <<url_i, site_vars, history_vars>>
  /\ UNCHANGED <<run_vars, error, results_files>>

(***************************************************************************)
(* process_single_url, lines 212-218: extract the site's features.         *)
(***************************************************************************)
extract_features ==
  /\ pc = "extract"
  /\ \E page \in Pages, hash \in Hashes :
       /\ page = "unreachable" => hash = <<>>
       /\ IF page = "raise"
          THEN pc' = "for_url" /\ features' = features
          ELSE /\ pc' = "analyze"
               /\ features' = WebsiteFeatureExtractor_extract_all_features(url_i, page, hash)
  /\ UNCHANGED <<run_vars, url_i, error, analysis_result, fingerprints, i,
                 final_results, final_results_count, finger_i, target_i, sim_list,
                 valid_fingerprint_results, results_files, history_vars>>

(***************************************************************************)
(* process_single_url, lines 220-250: the LLM analysis of the site; a      *)
(* failed or skipped analysis returns without a report.                    *)
(***************************************************************************)
analyze_site ==
  /\ pc = "analyze"
  /\ IF args.no_analysis
     THEN analysis_result' = NoAnalysis
     ELSE \E reply \in Replies(SiteLists) :
            LET r == DeepSeekAnalyzer_analyze_features(Reply(SiteLists, reply))
            IN  analysis_result' =
                  IF r.raised # "none"
                  THEN NoAnalysis              \* except Exception: success = False
                  ELSE [success |-> r.success, fingerprints |-> r.fingerprints]
  /\ pc' = IF analysis_result'.success THEN "favicon" ELSE "for_url"
  /\ UNCHANGED <<run_vars, url_i, error, features, fingerprints, i, final_results,
                 final_results_count, finger_i, target_i, sim_list,
                 valid_fingerprint_results, results_files, history_vars>>

(***************************************************************************)
(* process_single_url, line 267: the expanded candidate list.              *)
(***************************************************************************)
expand_fingerprints ==
  /\ pc = "expand"
  /\ IF analysis_result.fingerprints.type # "list"
     THEN /\ Fatal("TypeError")
          /\ fingerprints' = fingerprints
     ELSE /\ fingerprints' = get_fingerprints_sum(analysis_result.fingerprints.items)
          /\ pc' = "search"
          /\ error' = error
  /\ UNCHANGED <<run_vars, url_i, features, analysis_result, i, final_results,
                 final_results_count, finger_i, target_i, sim_list,
                 valid_fingerprint_results, results_files, history_vars>>

(***************************************************************************)
(* process_single_url, lines 268-295: one pass of the search loop.         *)
(***************************************************************************)
\* SampledTargets without the limit: the link field of every row.
SampledTargets_all(fofa_search_res) ==
  [n \in 1..Len(fofa_search_res) |-> fofa_search_res[n][5]]

\* Lines 291-293: the link field of the first min(len, 10) rows.
SampledTargets(fofa_search_res) ==
  [n \in 1..(IF Len(fofa_search_res) < SAMPLE_SIZE THEN Len(fofa_search_res) ELSE SAMPLE_SIZE)
     |-> fofa_search_res[n][5]]

\* Survives with the threshold itself let through (> for >=).
Survives_above_threshold(fofa_search_res) ==
  fofa_search_res # <<>> /\ ~(Len(fofa_search_res) > REJECT_THRESHOLD)

\* Line 278-279: the result is kept when it is non-empty and below the threshold.
Survives(fofa_search_res) ==
  fofa_search_res # <<>> /\ ~(Len(fofa_search_res) >= REJECT_THRESHOLD)

\* Lines 274-294 for one response: the exception that leaves fofa_query, or the
\* number of rows, whether the finger is kept, and its sampled targets.
SearchStep(cfg, name) ==
  Call1(LAMBDA r :
          LET fofa_search_res == r.data
          IN  [raised   |-> r.raised,
               len      |-> Len(fofa_search_res),
               survives |-> Survives(fofa_search_res),
               targets  |-> IF Survives(fofa_search_res)
                            THEN Tuple(SampledTargets(fofa_search_res)) ELSE <<>>],
        FofaSearch_fofa_query(cfg, Response(name)))

\* SearchStep of every configuration and response, computed once.
SearchTable == Table([cfg \in Configs, name \in Responses |-> SearchStep(cfg, name)])

\* process_single_url, lines 254-263: the favicon query, whose count is only logged.
favicon_query ==
  /\ pc = "favicon"
  /\ IF features.favicon_hash # <<>>
     THEN \E resp \in Responses :
            LET r == SearchTable[config, resp]
            IN  /\ IF r.raised # "none"
                   THEN Fatal(r.raised)
                   ELSE pc' = "expand" /\ error' = error
                /\ last_query' = IF r.raised = "KeyError" THEN "none" ELSE resp[1]
     ELSE /\ pc' = "expand"
          /\ UNCHANGED <<error, last_query>>
  /\ UNCHANGED <<run_vars, url_i, site_vars, results_files, queried, attempted,
                 last_sample, validated>>

search_finger ==
  /\ pc = "search"
  /\ i < Len(fingerprints)
  /\ \E resp \in Responses :
       LET finger == fingerprints[i + 1]
           r      == SearchTable[config, resp]
       IN  /\ last_query' = IF r.raised = "KeyError" THEN "none" ELSE resp[1]
           /\ IF r.raised # "none"
              THEN /\ Fatal(r.raised)
                   /\ UNCHANGED <<i, final_results, final_results_count, queried>>
              ELSE /\ pc' = pc
                   /\ error' = error
                   /\ i' = i + 1
                   /\ queried' = Append(queried, <<finger, r.len>>)
                   /\ IF r.survives
                      THEN /\ final_results' = DictSet(final_results, finger, r.targets)
                           /\ final_results_count' =
                                DictSet(final_results_count, finger, r.len)
                      ELSE UNCHANGED <<final_results, final_results_count>>
  /\ UNCHANGED <<run_vars, url_i, features, analysis_result, fingerprints, finger_i,
                 target_i, sim_list, valid_fingerprint_results, results_files,
                 attempted, last_sample, validated>>

(***************************************************************************)
(* process_single_url, lines 300-302: sort by hit count.                   *)
(***************************************************************************)
\* SortedCount with the sort left out: the dict stays in insertion order.
SortedCount_unsorted(count) == count

\* Line 300-301: sorted(final_results_count.items(), key=lambda x: x[1])
SortedCount(count) == SortedByValue(count)

sort_fingers ==
  /\ pc = "search"
  /\ i = Len(fingerprints)
  /\ final_results_count' = SortedCount(final_results_count)
  /\ final_results' =
       [n \in 1..Len(final_results_count) |->
          <<final_results_count'[n][1], DictGet(final_results, final_results_count'[n][1])>>]
  /\ pc' = "for_finger"
  /\ last_query' = "none"
  /\ UNCHANGED <<run_vars, url_i, error, features, analysis_result, fingerprints, i,
                 finger_i, target_i, sim_list, valid_fingerprint_results,
                 results_files, queried, attempted, last_sample, validated>>

(***************************************************************************)
(* process_single_url, lines 306-308: the next item of final_results.      *)
(***************************************************************************)
next_finger ==
  /\ pc = "for_finger"
  /\ finger_i < Len(final_results)
  /\ finger_i' = finger_i + 1
  /\ sim_list' = <<>>
  /\ target_i' = 0
  /\ attempted' = <<>>
  /\ pc' = "for_target"
  /\ UNCHANGED <<run_vars, url_i, error, features, analysis_result, fingerprints, i,
                 final_results, final_results_count, valid_fingerprint_results,
                 results_files, queried, last_query, last_sample, validated>>

(***************************************************************************)
(* process_single_url, lines 309-324: one sampled target.                  *)
(***************************************************************************)
\* Line 319: sim > 0.1
AboveNoiseFloor(sim) == Call2(FloatLess, FloatOf(NOISE_FLOOR), FloatOf(sim))

\* Lines 313-320: the try block; [raised, recorded, sim].
TrySample(orig, page, second_analysis_result) ==
  IF \/ page = "raise"
     \/ second_analysis_result.raised # "none"
     \/ second_analysis_result.fingerprints.type # "list"
  THEN [raised |-> TRUE, recorded |-> FALSE, sim |-> <<0, 1>>]
  ELSE Call1(LAMBDA sim : [raised |-> FALSE, recorded |-> AboveNoiseFloor(sim), sim |-> sim],
             UrlListSimilarity_jaccard(orig, second_analysis_result.fingerprints.items))

\* TrySample of every site list, page and reply, computed once.
SampleTable ==
  Table([orig \in {SiteLists[n] : n \in 1..Len(SiteLists)}, page \in Pages,
         reply \in Replies(HitLists) |->
           TrySample(orig, page, DeepSeekAnalyzer_analyze_features(Reply(HitLists, reply)))])

\* AfterSample with "break" for "continue": a raising sample ends the candidate.
AfterSample_break(t, raised) ==
  IF raised THEN Len(final_results[finger_i][2]) ELSE t + 1

\* Lines 322-324: except Exception: continue.
AfterSample(t, raised) == t + 1

validate_target ==
  /\ pc = "for_target"
  /\ target_i < Len(final_results[finger_i][2])
  /\ \E page \in Pages, reply \in Replies(HitLists) :
       \* a site whose extractor cannot be built is never classified
       /\ page = "raise" => reply = <<"error", 0>>
       /\ LET target_url == final_results[finger_i][2][target_i + 1]
              second_features ==
                WebsiteFeatureExtractor_extract_all_features(target_url, page, <<>>)
              second_analysis_result ==
                DeepSeekAnalyzer_analyze_features(Reply(HitLists, reply))
              t == SampleTable[analysis_result.fingerprints.items, page, reply]
          IN  /\ t.recorded => Len(sim_list) < MaxRecorded
              /\ sim_list' = IF t.recorded THEN Append(sim_list, t.sim) ELSE sim_list
              /\ target_i' = AfterSample(target_i, t.raised)
              /\ attempted' = Append(attempted, target_url)
              /\ last_sample' =
                   [success  |-> second_features.resources = "some"
                                   /\ second_analysis_result.success,
                    recorded |-> t.recorded]
  /\ UNCHANGED <<run_vars, url_i, pc, error, features, analysis_result, fingerprints, i,
                 final_results, final_results_count, finger_i,
                 valid_fingerprint_results, results_files, queried, last_query,
                 validated>>

(***************************************************************************)
(* process_single_url, lines 326-338: the average and the verdict.         *)
(***************************************************************************)
\* Line 328: sum(sim_list) / len(sim_list)
Average(l) == Call2(FloatDivInt, FloatSum(l), Len(l))

\* Lines 327-329: len(sim_list) and avg >= 0.4
IsValid(l) ==
  l # <<>> /\ ~Call2(FloatLess, Average(l), FloatOf(VALID_THRESHOLD))

\* The similarities a sample can record, and the lists of them.
RecordedSims ==
  {SampleTable[k].sim : k \in {k \in DOMAIN SampleTable : SampleTable[k].recorded}}
SimLists == UNION {[1..n -> RecordedSims] : n \in 0..MaxRecorded}

\* Average and IsValid of every list of recorded similarities, computed once.
VerdictTable ==
  Table([l \in SimLists |->
           [valid |-> IsValid(l), avg |-> IF l = <<>> THEN Zero ELSE Average(l)]])

average_finger ==
  /\ pc = "for_target"
  /\ target_i = Len(final_results[finger_i][2])
  /\ LET finger == final_results[finger_i][1]
     IN  /\ valid_fingerprint_results' =
              IF VerdictTable[sim_list].valid
              THEN Append(valid_fingerprint_results,
                          [finger |-> finger,
                           avg_similar |-> VerdictTable[sim_list].avg,
                           url_count |-> DictGet(final_results_count, finger)])
              ELSE valid_fingerprint_results
         /\ validated' = Append(validated, finger)
  /\ pc' = "for_finger"
  /\ UNCHANGED <<run_vars, url_i, error, features, analysis_result, fingerprints, i,
                 final_results, final_results_count, finger_i, target_i, sim_list,
                 results_files, queried, last_query, attempted, last_sample>>

(***************************************************************************)
(* process_single_url, line 341, and save_results.                         *)
(***************************************************************************)
save_results ==
  /\ pc = "for_finger"
  /\ finger_i = Len(final_results)
  /\ results_files' = Append(results_files, url_i)
  /\ pc' = "for_url"
  /\ UNCHANGED <<run_vars, url_i, error, site_vars, history_vars>>

Next ==
  \/ load_config
  \/ next_url
  \/ extract_features
  \/ analyze_site
  \/ favicon_query
  \/ expand_fingerprints
  \/ search_finger
  \/ sort_fingers
  \/ next_finger
  \/ validate_target
  \/ average_finger
  \/ save_results

Spec == Init /\ [][Next]_vars

(***************************************************************************)
(* UrlListSimilarity.jaccard called alone, on every pair of lists of at    *)
(* most MaxLen of the strings below.                                       *)
(***************************************************************************)
Strings ==
  { <<>>,                                      \* ""
    <<" ">>,                                   \* " "
    <<"/", "a">>,                              \* "/a"
    <<" ", "/", "a", " ">>,                    \* " /a "
    <<"/", "a", "?", "x", "=", "1">>,          \* "/a?x=1"
    <<"/", "a", "?", "y", "=", "2">>,          \* "/a?y=2"
    <<"h", ":", "/", "/", "x", "/", "b", "#", "f">>,   \* "h://x/b#f"
    <<"/", "b">> }                             \* "/b"
StringLists == UNION {[1..n -> Strings] : n \in 0..MaxLen}

InitJaccard ==
  /\ pc = "jaccard"
  /\ config = [exists |-> TRUE, keys |-> ConfigKeys]
  /\ args = [no_analysis |-> FALSE]
  /\ urls = 1
  /\ url_i = 0
  /\ error = "none"
  /\ features = NoFeatures
  /\ analysis_result = NoAnalysis
  /\ fingerprints = <<>>
  /\ i = 0
  /\ final_results = <<>>
  /\ final_results_count = <<>>
  /\ finger_i = 0
  /\ target_i = 0
  /\ sim_list = <<>>
  /\ valid_fingerprint_results = <<>>
  /\ results_files = <<>>
  /\ queried = <<>>
  /\ last_query = "none"
  /\ attempted = <<>>
  /\ last_sample = NoSample
  /\ validated = <<>>
  /\ jaccard_a \in StringLists
  /\ jaccard_b \in StringLists
  /\ similarity = <<1, 1>>

jaccard ==
  /\ pc = "jaccard"
  /\ similarity' = UrlListSimilarity_jaccard(jaccard_a, jaccard_b)
  /\ pc' = "returned"
  /\ UNCHANGED <<config, args, urls, jaccard_a, jaccard_b, url_i, error, site_vars,
                 results_files, history_vars>>

NextJaccard == jaccard

SpecJaccard == InitJaccard /\ [][NextJaccard]_vars

(***************************************************************************)
(* The claims.                                                             *)
(***************************************************************************)
Last(l) == l[Len(l)]
Keys(d) == {d[n][1] : n \in 1..Len(d)}
\* The place in the candidate list of the first query of finger that survived
\* the filter: the place the candidate has among the surviving candidates.
FirstSurviving(finger) ==
  Min({n \in 1..Len(queried) :
         fingerprints[n] = finger /\ queried[n][2] \in 1..(REJECT_THRESHOLD - 1)})

\* The exact sum, as a fraction <<numerator, denominator>>, of the quotients in l.
RECURSIVE ExactSum(_)
ExactSum(l) ==
  IF l = <<>> THEN <<0, 1>>
  ELSE Call1(LAMBDA rest : <<rest[1] * Last(l)[2] + Last(l)[1] * rest[2], rest[2] * Last(l)[2]>>,
             ExactSum(SubSeq(l, 1, Len(l) - 1)))

\* The arithmetic mean of the quotients in l is at least the quotient t.
MeanAtLeast(l, t) ==
  Call1(LAMBDA total : total[1] * t[2] >= t[1] * Len(l) * total[2], ExactSum(l))

TransportFailures == {"timeout", "status", "malformed"}
ConfigurationFailures == {"SystemExit", "KeyError"}
ValidConfig == config.exists /\ ConfigKeys \subseteq config.keys

\* The finger whose validation ended last, and whether the report holds it.
ValidationEnded == pc = "for_finger" /\ finger_i > 0
Reported(finger) ==
  \E n \in 1..Len(valid_fingerprint_results) : valid_fingerprint_results[n].finger = finger

\* C1: a search query that met a timeout, a non-2xx status or a malformed body
\* returned the empty sequence: the run did not end by an exception, and the
\* body query counted zero hits for its candidate.
C1_TransportFailureReturnsEmpty ==
  last_query \in TransportFailures =>
    /\ pc # "fatal"
    /\ pc = "search" /\ i > 0 => queried[i][2] = 0

\* C2: with a valid configuration and the analysis enabled, a site whose
\* processing is over (process_single_url returned, or the run ended) has its
\* report written.
C2_ReportAlwaysWritten ==
  ValidConfig /\ ~args.no_analysis /\ url_i > 0 /\ pc \in {"for_url", "exit", "fatal"} =>
    InList(url_i, results_files)

\* C3: a run ends by an exception only for a configuration failure, and then
\* before any site is handed to process_single_url (nothing was extracted,
\* classified or searched).
C3_OnlyConfigurationFailureIsFatal ==
  pc = "fatal" =>
    /\ error \in ConfigurationFailures
    /\ url_i = 0
    /\ features = NoFeatures
    /\ analysis_result = NoAnalysis

\* C4: every key of final_results has a hit count with 0 < count < 5000, which
\* is the length of a result the search returned for it; it is sampled from that
\* result; and only such candidates are validated or reported.
C4_SurvivorsWithinThreshold ==
  /\ Keys(final_results) = Keys(final_results_count)
  /\ \A n \in 1..Len(final_results_count) :
       LET finger == final_results_count[n][1]
           count  == final_results_count[n][2]
       IN  /\ 0 < count /\ count < REJECT_THRESHOLD
           /\ InList(<<finger, count>>, queried)
           /\ DictGet(final_results, finger) # <<>>
  /\ \A n \in 1..Len(validated) : validated[n] \in Keys(final_results_count)
  /\ \A n \in 1..Len(valid_fingerprint_results) :
       /\ valid_fingerprint_results[n].finger \in Keys(final_results_count)
       /\ valid_fingerprint_results[n].url_count \in 1..(REJECT_THRESHOLD - 1)

\* C4 witness: a candidate with 4999 hits is under cross-validation.
C4_Witness ==
  /\ pc = "for_target"
  /\ target_i > 0
  /\ DictGet(final_results_count, final_results[finger_i][1]) = REJECT_THRESHOLD - 1

\* C5: the candidate whose validation just ended is in the report if and only if
\* a score was recorded for it and the arithmetic mean of its scores is >= 0.4.
C5_ValidIffMeanAtLeastThreshold ==
  ValidationEnded =>
    (Reported(final_results[finger_i][1])
       <=> (sim_list # <<>> /\ MeanAtLeast(sim_list, VALID_THRESHOLD)))

\* C6: a sample that recorded a score was a successful re-visit (the page was
\* fetched and the classification succeeded), and every recorded score is
\* strictly greater than 0.1.
C6_ScoresOnlyFromSuccessfulVisits ==
  /\ last_sample.recorded => last_sample.success
  /\ \A n \in 1..Len(sim_list) :
       sim_list[n][1] * NOISE_FLOOR[2] > NOISE_FLOOR[1] * sim_list[n][2]

\* C7: the samples attempted for a candidate are its sampled hits in order, none
\* left out, and all of them once its validation ended; and every candidate has
\* been validated when the report is written.
C7_FailureSkipsOnlyTheSample ==
  /\ pc = "for_target" => attempted = SubSeq(final_results[finger_i][2], 1, target_i)
  /\ ValidationEnded =>
       /\ attempted = final_results[finger_i][2]
       /\ validated = SubSeq(DictKeys(final_results), 1, finger_i)
  /\ pc = "for_url" /\ InList(url_i, results_files) => validated = DictKeys(final_results)

\* C7 witness: the last sample of the first candidate failed, all its ten samples
\* were attempted, and the second candidate is under validation.
C7_Witness ==
  /\ pc = "for_target"
  /\ finger_i = 2
  /\ target_i = 0
  /\ ~last_sample.success
  /\ Len(final_results[1][2]) = SAMPLE_SIZE
  /\ validated = <<final_results[1][1]>>

\* C8: once sorted, the surviving candidates are in ascending order of hit
\* count, equal counts in the order in which they survived in the candidate
\* list; they are validated in that order, and the report is ascending by
\* url_count.
C8_AscendingStableOrder ==
  pc \in {"for_finger", "for_target"} =>
    /\ \A m, n \in 1..Len(final_results_count) :
         m < n =>
           \/ final_results_count[m][2] < final_results_count[n][2]
           \/ /\ final_results_count[m][2] = final_results_count[n][2]
              /\ FirstSurviving(final_results_count[m][1])
                   < FirstSurviving(final_results_count[n][1])
    /\ DictKeys(final_results) = DictKeys(final_results_count)
    /\ validated = SubSeq(DictKeys(final_results), 1, Len(validated))
    /\ \A m, n \in 1..Len(valid_fingerprint_results) :
         m < n => valid_fingerprint_results[m].url_count
                    <= valid_fingerprint_results[n].url_count

\* C8 witness: the sort moved the second candidate of the list, with fewer
\* hits, before the first, and both were validated and reported in that order.
C8_Witness ==
  /\ pc = "for_finger"
  /\ Len(valid_fingerprint_results) = 2
  /\ valid_fingerprint_results[1].finger = fingerprints[2]
  /\ valid_fingerprint_results[2].finger = fingerprints[1]
  /\ valid_fingerprint_results[1].url_count < valid_fingerprint_results[2].url_count

\* C9: no target that begins with "0" is among a candidate's sampled hits or
\* among the targets re-visited.
C9_NoPlaceholderTargetSampled ==
  /\ \A n \in 1..Len(final_results) :
       \A k \in 1..Len(final_results[n][2]) : final_results[n][2][k][1] # "0"
  /\ \A k \in 1..Len(attempted) : attempted[k][1] # "0"

\* The key set of C10: empty and whitespace-only entries discarded, the path
\* component of every other entry.
PathKeys(l) ==
  {urlsplit_path(Call1(strip, l[n])) : n \in {k \in 1..Len(l) : strip(l[k]) # <<>>}}

\* C10: jaccard(A, B) is |A' n B'| / |A' u B'| of the key sets with empty and
\* whitespace-only entries discarded, 1.0 when both key sets are empty and 0.0
\* when exactly one is.
C10_JaccardOfNormalizedSets ==
  pc = "returned" =>
    LET A == PathKeys(jaccard_a)
        B == PathKeys(jaccard_b)
        expected == IF A = {} /\ B = {} THEN <<1, 1>>
                    ELSE <<Cardinality(A \cap B), Cardinality(A \cup B)>>
    IN  similarity[1] * expected[2] = expected[1] * similarity[2]

\* A list written backwards, rotated by one place, and written twice: the first
\* two generate every permutation, the third duplicates every entry.
Reversed(l) == [n \in 1..Len(l) |-> l[Len(l) + 1 - n]]
Rotated(l) == IF l = <<>> THEN l ELSE Tail(l) \o <<Head(l)>>
Doubled(l) == l \o l
Rearranged(l) == {Reversed(l), Rotated(l), Doubled(l)}

\* C11: jaccard(A, B) = jaccard(B, A); jaccard(A, A) = 1.0; permuting or
\* duplicating the entries of A or of B does not change the result; and the
\* result lies in [0, 1].
C11_JaccardSymmetricReflexive ==
  pc = "returned" =>
    /\ similarity = UrlListSimilarity_jaccard(jaccard_b, jaccard_a)
    /\ jaccard_a = jaccard_b => similarity[1] = similarity[2]
    /\ UrlListSimilarity_jaccard(jaccard_a, jaccard_a)[1]
         = UrlListSimilarity_jaccard(jaccard_a, jaccard_a)[2]
    /\ \A l \in Rearranged(jaccard_a) : UrlListSimilarity_jaccard(l, jaccard_b) = similarity
    /\ \A l \in Rearranged(jaccard_b) : UrlListSimilarity_jaccard(jaccard_a, l) = similarity
    /\ 0 <= similarity[1] /\ similarity[1] <= similarity[2] /\ similarity[2] > 0

\* C11 witness: jaccard returned a value strictly between 0 and 1 for two
\* different lists, the first of which holds two entries with one key.
C11_Witness ==
  /\ pc = "returned"
  /\ jaccard_a # jaccard_b
  /\ Len(jaccard_a) = 2
  /\ UrlListSimilarity_normalize(jaccard_a) = {<<"/", "a">>}
  /\ jaccard_a[1] # jaccard_a[2]
  /\ 0 < similarity[1] /\ similarity[1] < similarity[2]

\* A list without its repeated values: the first occurrence of each, in order.
Deduplicated(l) ==
  LET first == {n \in 1..Len(l) : \A m \in 1..(n - 1) : l[m] # l[n]}
      place(k) == CHOOSE n \in first : Cardinality({m \in first : m <= n}) = k
  IN  [k \in 1..Cardinality(first) |-> l[place(k)]]

\* C12: the expanded candidate list holds no value twice; it begins with the
\* candidates in their original order, and what follows are final path segments
\* of candidates, each non-empty and derived from a candidate that is not "/"
\* followed by the segment.
C12_ExpandedListDeduplicated ==
  pc \in {"search", "for_finger", "for_target"} =>
    LET candidates == analysis_result.fingerprints.items
        given == Deduplicated(candidates)
    IN  /\ \A m, n \in 1..Len(fingerprints) : m < n => fingerprints[m] # fingerprints[n]
        /\ Len(fingerprints) >= Len(given)
        /\ SubSeq(fingerprints, 1, Len(given)) = given
        /\ \A n \in (Len(given) + 1)..Len(fingerprints) :
             /\ fingerprints[n] # <<>>
             /\ \E k \in 1..Len(candidates) :
                  /\ basename(candidates[k]) = fingerprints[n]
                  /\ candidates[k] # <<"/">> \o fingerprints[n]

\* C13: the sampled hits of every surviving candidate are the link fields of the
\* first min(hit_count, 10) rows of a result the search returned for it, in the
\* order of the rows; and the targets re-visited are among those ten, in order.
C13_SampleIsFirstRows ==
  /\ \A n \in 1..Len(final_results) :
       LET finger  == final_results[n][1]
           targets == final_results[n][2]
           count   == DictGet(final_results_count, finger)
       IN  /\ InList(<<finger, count>>, queried)
           /\ Len(targets) = (IF count < SAMPLE_SIZE THEN count ELSE SAMPLE_SIZE)
           /\ \A k \in 1..Len(targets) : targets[k] = Rows(count)[k][5]
  /\ pc = "for_target" =>
       LET count == DictGet(final_results_count, final_results[finger_i][1])
       IN  /\ Len(attempted) <= SAMPLE_SIZE
           /\ \A k \in 1..Len(attempted) : attempted[k] = Rows(count)[k][5]

\* C13 witness: a candidate with more than ten hits has had ten targets
\* re-visited, the tenth being row ten of its result.
C13_Witness ==
  /\ pc = "for_target"
  /\ DictGet(final_results_count, final_results[finger_i][1]) > SAMPLE_SIZE
  /\ Len(attempted) = SAMPLE_SIZE
  /\ attempted[SAMPLE_SIZE] = Link(SAMPLE_SIZE)

\* The values of a list, as a set.
Values(l) == {l[n] : n \in 1..Len(l)}

\* C14: within one site no candidate value is queried twice, and once the
\* search loop is over every value of the expanded candidate list was queried
\* exactly once.
C14_OneQueryPerCandidateValue ==
  /\ \A m, n \in 1..Len(queried) : m < n => queried[m][1] # queried[n][1]
  /\ pc \in {"for_finger", "for_target"} =>
       /\ {queried[n][1] : n \in 1..Len(queried)} = Values(fingerprints)
       /\ Len(queried) = Cardinality(Values(fingerprints))
====
